---- MODULE Spec2Model ----
(***************************************************************************)
(* Episode state machine and action-execution protocol of the browser      *)
(* environment: WebController and BrowserEnv of env.py and the             *)
(* orchestration loop run_single_episode of run.py.                        *)
(*                                                                         *)
(* Text is a sequence of tokens.  A token is a keyword in one letter case, *)
(* a punctuation character, a digit, or an opaque run of other characters. *)
(* No token of the alphabet contains another keyword, a bracket or a       *)
(* newline inside it, so prefix matching, substring tests and splitting    *)
(* on tokens agree with the same operations on characters.                 *)
(***************************************************************************)
EXTENDS Integers, Sequences, FiniteSets, TLC

VARIABLES steps, history, last_context, done,
          driver, browser, capSeq, faults, last,
          pc, step_count, run_done, ended_by, wait, group, m2w

vars == <<steps, history, last_context, done, driver, browser, capSeq, faults,
          last, pc, step_count, run_done, ended_by, wait, group, m2w>>

envVars == <<steps, history, last_context, done, driver, browser, capSeq,
             faults, last>>

runVars == <<step_count, run_done, ended_by>>

(***************************************************************************)
(* Bounds of the model.                                                    *)
(***************************************************************************)
MaxSteps == 2
MaxCloses == 2
MaxScroll == 1
MaxFaults == 1
MaxPolls == 14
MaxContent == 3
MaxMarkers == 2
MaxGroup == 2
MaxBatch == 2
MaxSeedPairs == 2

(***************************************************************************)
(* Text helpers (Python str methods on token sequences).                   *)
(***************************************************************************)
Digits == {"0", "1", "2", "3", "4", "5", "6", "7", "8", "9"}

IsDigit(t) == t \in Digits

DigitVal(t) ==
    CASE t = "0" -> 0 [] t = "1" -> 1 [] t = "2" -> 2 [] t = "3" -> 3
      [] t = "4" -> 4 [] t = "5" -> 5 [] t = "6" -> 6 [] t = "7" -> 7
      [] t = "8" -> 8 [] t = "9" -> 9 [] OTHER -> 0

\* Lower for a matcher that compares letter case
Lower_CaseSensitive(t) == t

\* re.IGNORECASE: the lower-case form of a keyword token.
Lower(t) ==
    CASE t \in {"Click", "click", "CLICK"} -> "click"
      [] t \in {"Type", "type", "TYPE"} -> "type"
      [] t \in {"Scroll", "scroll", "SCROLL"} -> "scroll"
      [] t \in {"WINDOW", "window", "Window"} -> "window"
      [] t \in {"up", "UP", "Up"} -> "up"
      [] t \in {"down", "DOWN", "Down"} -> "down"
      [] t \in {"ANSWER", "answer", "Answer"} -> "answer"
      [] t \in {"Wait", "wait", "WAIT"} -> "wait"
      [] t \in {"GoBack", "goback", "GOBACK"} -> "goback"
      [] t \in {"Google", "google", "GOOGLE"} -> "google"
      [] OTHER -> t

Whitespace == {" ", "\n"}

RECURSIVE LStrip(_)
LStrip(s) ==
    IF s # <<>> /\ Head(s) \in Whitespace THEN LStrip(Tail(s)) ELSE s

RECURSIVE RStrip(_)
RStrip(s) ==
    IF s # <<>> /\ s[Len(s)] \in Whitespace
    THEN RStrip(SubSeq(s, 1, Len(s) - 1)) ELSE s

\* str.strip()
Strip(s) == RStrip(LStrip(s))

\* sub in s
Contains(s, tok) == \E i \in 1..Len(s) : s[i] = tok

\* index of the first occurrence of tok in s, 0 when there is none
IndexOf(s, tok) ==
    IF Contains(s, tok)
    THEN CHOOSE i \in 1..Len(s) :
             s[i] = tok /\ \A j \in 1..(i - 1) : s[j] # tok
    ELSE 0

\* s.split(sep)[0]
SplitHead(s, sep) ==
    IF Contains(s, sep) THEN SubSeq(s, 1, IndexOf(s, sep) - 1) ELSE s

\* the text after the first occurrence of sep
AfterFirst(s, sep) == SubSeq(s, IndexOf(s, sep) + 1, Len(s))

\* s.split(sep)[1], for s that contains sep
SplitSecond(s, sep) == SplitHead(AfterFirst(s, sep), sep)

\* end of the maximal run of tokens of set S that starts at p (p - 1 if none)
RECURSIVE RunEnd(_, _, _)
RunEnd(s, p, S) ==
    IF p <= Len(s) /\ s[p] \in S THEN RunEnd(s, p + 1, S) ELSE p - 1

\* int(digits)
RECURSIVE ToInt(_)
ToInt(ds) ==
    IF ds = <<>> THEN 0
    ELSE 10 * ToInt(SubSeq(ds, 1, Len(ds) - 1)) + DigitVal(ds[Len(ds)])

(***************************************************************************)
(* Action grammar: the three regular expressions of _parse_and_execute,    *)
(* matched as re.match does (anchored at the start, greedy, backtracking). *)
(***************************************************************************)
\* end of the maximal run of tokens other than tok that starts at p
RECURSIVE RunEndNot(_, _, _)
RunEndNot(s, p, tok) ==
    IF p <= Len(s) /\ s[p] # tok THEN RunEndNot(s, p + 1, tok) ELSE p - 1

\* position of the numeric argument: after the keyword, the space and \[?
ArgPos(s) == IF Len(s) >= 3 /\ s[3] = "[" THEN 4 ELSE 3

\* first position after \]? when the argument ends at q
AfterArg(s, q) == IF q + 1 <= Len(s) /\ s[q + 1] = "]" THEN q + 2 ELSE q + 1

\* re.match(r"Click \[?(\d+)\]?", action_text, re.IGNORECASE)
ClickMatch(s) ==
    LET p == ArgPos(s)
        q == RunEnd(s, p, Digits)
        ok == Len(s) >= 3 /\ Lower(s[1]) = "click" /\ s[2] = " " /\ q >= p
    IN  [ok |-> ok, id |-> IF ok THEN SubSeq(s, p, q) ELSE <<>>]

\* re.match(r"Type \[?(\d+)\]?[; ]+\[?(.[^\]]*)\]?", action_text, re.IGNORECASE)
\* [; ]+ and \[? are greedy; "." needs one character that is not a newline,
\* so the matcher gives back first the bracket and then one separator.
TypeMatch(s) ==
    LET p == ArgPos(s)
        q == RunEnd(s, p, Digits)
        r == AfterArg(s, q)
        e == RunEnd(s, r, {";", " "})
        withBracket == e + 2 <= Len(s) /\ s[e + 1] = "[" /\ s[e + 2] # "\n"
        noBracket == e + 1 <= Len(s) /\ s[e + 1] # "\n"
        giveBack == e - r + 1 >= 2
        start == IF withBracket THEN e + 2 ELSE IF noBracket THEN e + 1 ELSE e
        stop == RunEndNot(s, start + 1, "]")
        ok == /\ Len(s) >= 3 /\ Lower(s[1]) = "type" /\ s[2] = " "
              /\ q >= p /\ e >= r
              /\ (withBracket \/ noBracket \/ giveBack)
    IN  [ok |-> ok,
         id |-> IF ok THEN SubSeq(s, p, q) ELSE <<>>,
         content |-> IF ok THEN SubSeq(s, start, stop) ELSE <<>>]

\* re.match(r"Scroll \[?(\d+|WINDOW)\]?[; ]+\[?(up|down)\]?", action_text, re.IGNORECASE)
ScrollMatch(s) ==
    LET p == ArgPos(s)
        q == IF p <= Len(s) /\ IsDigit(s[p]) THEN RunEnd(s, p, Digits)
             ELSE IF p <= Len(s) /\ Lower(s[p]) = "window" THEN p ELSE p - 1
        r == AfterArg(s, q)
        e == RunEnd(s, r, {";", " "})
        u == IF e + 1 <= Len(s) /\ s[e + 1] = "[" THEN e + 2 ELSE e + 1
        ok == /\ Len(s) >= 3 /\ Lower(s[1]) = "scroll" /\ s[2] = " "
              /\ q >= p /\ e >= r
              /\ u <= Len(s) /\ Lower(s[u]) \in {"up", "down"}
    IN  [ok |-> ok,
         target |-> IF ok THEN SubSeq(s, p, q) ELSE <<>>,
         direction |-> IF ok THEN s[u] ELSE ""]

\* ParseKind with the ANSWER test written as equality instead of startswith
ParseKind_AnswerEquals(action_text) ==
    LET s == Strip(action_text)
    IN  IF s = <<"ANSWER">> THEN "answer"
        ELSE IF ClickMatch(s).ok THEN "click"
        ELSE IF TypeMatch(s).ok THEN "type"
        ELSE IF ScrollMatch(s).ok THEN "scroll"
        ELSE IF Contains(s, "Wait") THEN "wait"
        ELSE IF Contains(s, "GoBack") THEN "goback"
        ELSE IF Contains(s, "Google") THEN "google"
        ELSE "invalid"

\* ParseKind with the substring rules tried before the three patterns
ParseKind_KeywordsFirst(action_text) ==
    LET s == Strip(action_text)
    IN  IF s # <<>> /\ s[1] = "ANSWER" THEN "answer"
        ELSE IF Contains(s, "Wait") THEN "wait"
        ELSE IF Contains(s, "GoBack") THEN "goback"
        ELSE IF Contains(s, "Google") THEN "google"
        ELSE IF ClickMatch(s).ok THEN "click"
        ELSE IF TypeMatch(s).ok THEN "type"
        ELSE IF ScrollMatch(s).ok THEN "scroll"
        ELSE "invalid"

\* The rule of _parse_and_execute that an action text takes, in code order.
ParseKind(action_text) ==
    LET s == Strip(action_text)
    IN  IF s # <<>> /\ s[1] = "ANSWER" THEN "answer"
        ELSE IF ClickMatch(s).ok THEN "click"
        ELSE IF TypeMatch(s).ok THEN "type"
        ELSE IF ScrollMatch(s).ok THEN "scroll"
        ELSE IF Contains(s, "Wait") THEN "wait"
        ELSE IF Contains(s, "GoBack") THEN "goback"
        ELSE IF Contains(s, "Google") THEN "google"
        ELSE "invalid"

\* no executor call: no arguments
NoArgs == [id |-> <<>>, content |-> <<>>, target |-> <<>>, direction |-> ""]

\* The arguments that _parse_and_execute hands to execute_raw_action.
ParseArgs(action_text) ==
    LET s == Strip(action_text)
        k == ParseKind(action_text)
    IN  CASE k = "click" ->
               [id |-> ClickMatch(s).id, content |-> <<>>,
                target |-> <<>>, direction |-> ""]
          [] k = "type" ->
               [id |-> TypeMatch(s).id, content |-> TypeMatch(s).content,
                target |-> <<>>, direction |-> ""]
          [] k = "scroll" ->
               [id |-> <<>>, content |-> <<>>,
                target |-> ScrollMatch(s).target,
                direction |-> ScrollMatch(s).direction]
          [] OTHER -> NoArgs

\* step: the action line taken out of the model's text
ExtractActionLine(model_content) ==
    IF Contains(model_content, "Action:")
    THEN SplitHead(Strip(SplitSecond(model_content, "Action:")), "\n")
    ELSE model_content

(***************************************************************************)
(* The browser session behind WebController.  The driver is an external    *)
(* collaborator: what a click leads to and whether a driver call raises    *)
(* are inputs, drawn from DriverOutcomes and CaptureOutcomes.              *)
(***************************************************************************)
Pages == {"start", "results", "google"}

\* number of interactable elements that markPage finds on a page
NumElements(p) ==
    CASE p = "start" -> 6 [] p = "results" -> 3 [] p = "google" -> 5 [] OTHER -> 0

\* element handles of a page, in label order (label i is entry i + 1)
ElementsOf(p) == [i \in 1..NumElements(p) |-> <<p, i - 1>>]

\* what markPage reports of each item of a page: the tag name, the type
\* attribute and the kind of its textContent (empty, shorter than 200
\* characters, 200 characters or more, or markup of an image)
Item(tag, type, text) == [tag |-> tag, type |-> type, text |-> text]

ItemsOf(p) ==
    CASE p = "start" ->
           <<Item("a", "", "short"), Item("a", "", "empty"),
             Item("a", "", "short"), Item("button", "submit", "empty"),
             Item("input", "text", "empty"), Item("li", "", "long")>>
      [] p = "results" ->
           <<Item("a", "", "short"), Item("a", "", "short"),
             Item("button", "", "short")>>
      [] p = "google" ->
           <<Item("a", "", "short"), Item("a", "", "img"),
             Item("textarea", "", "empty"), Item("input", "submit", "empty"),
             Item("a", "", "short")>>
      [] OTHER -> <<>>

input_attr_types == {"text", "search", "password", "email", "tel"}

\* get_web_element_rect: whether an item gets a "[id]: ..." entry in the text
HasEntry(item) ==
    IF item.text = "empty"
    THEN \/ item.tag = "input" /\ item.type \in input_attr_types
         \/ item.tag = "textarea"
         \/ item.tag = "button" /\ item.type \in {"submit", "button"}
    ELSE item.text = "short"

\* the labels of the entries of format_ele_text, in the order of the text
format_ele_text(items) ==
    SelectSeq([i \in 1..Len(items) |-> i - 1],
              LAMBDA web_ele_id : HasEntry(items[web_ele_id + 1]))

ErrTexts == {<<"timeout">>}

\* fail: the driver raises before the operation took effect, after it took
\* effect (during the URL wait), or not at all; nav: where a click or a
\* submitted text leads.
DriverOutcomes ==
    {[fail |-> "none", err |-> <<>>, nav |-> n] : n \in {"stay", "results"}}
    \cup {[fail |-> "before", err |-> e, nav |-> "stay"] : e \in ErrTexts}
    \cup {[fail |-> "after", err |-> e, nav |-> "results"] : e \in ErrTexts}

\* mark_fails: get_web_element_rect raises; marked: markPage had added its
\* markers to the page by then; shot_fails: the screenshot call raises.
CaptureOutcomes ==
    {c \in [mark_fails : BOOLEAN, marked : BOOLEAN, shot_fails : BOOLEAN] :
        ~c.mark_fails => c.marked}

\* the number of driver calls that an outcome makes raise
DriverFaults(d) == IF d.fail = "none" THEN 0 ELSE 1

CaptureFaults(c) ==
    (IF c.mark_fails THEN 1 ELSE 0) + (IF c.shot_fails THEN 1 ELSE 0)

NoField == [ele |-> <<"none", 0>>, content |-> <<>>]

\* self.last_context = {}
NoContext ==
    [id |-> 0, has |-> FALSE, page |-> "none", web_eles |-> <<>>,
     web_text |-> "none", labels |-> <<>>]

\* the page after the browser followed a link or a form submission
Navigated(b, target) ==
    IF target = "stay" THEN b
    ELSE [page |-> target, nav |-> Append(b.nav, b.page), scroll |-> 0,
          field |-> NoField, markers |-> 0]

\* driver.back()
WentBack(b) ==
    IF b.nav = <<>> THEN b
    ELSE [page |-> b.nav[Len(b.nav)], nav |-> SubSeq(b.nav, 1, Len(b.nav) - 1),
          scroll |-> 0, field |-> NoField, markers |-> 0]

\* window.scrollBy(0, +-scroll_amount), in units of scroll_amount
ScrolledWindow(b, direction) ==
    [b EXCEPT !.scroll = IF direction = "down"
                         THEN (IF b.scroll < MaxScroll THEN b.scroll + 1 ELSE b.scroll)
                         ELSE (IF b.scroll > 0 THEN b.scroll - 1 ELSE 0)]

\* the exception text of a driver call on a quit driver or a stale element
ErrOf(d) == IF d.fail = "none" THEN <<"driver error">> ELSE d.err

ActionFailed(err) == <<"Action Failed: ">> \o err

OutOfRange == <<"Error: Element ID ", "out of range", ".">>

\* WebController.navigate: every exception is logged and swallowed
navigate(b, alive, url, d) ==
    IF ~alive \/ d.fail = "before" THEN b
    ELSE Navigated(b, url)

\* InRange with the upper bound off by one
InRange_Inclusive(idx, web_eles) == idx <= Len(web_eles)

\* 0 <= idx < len(web_eles), for idx read by \d+
InRange(idx, web_eles) == idx < Len(web_eles)

\* WebController.execute_raw_action.  raised: a driver call of the action
\* raised, whether or not the exception reached the except clause.
execute_raw_action(action_type, args, context, b, alive, d) ==
    LET failed(err, bb, ops) ==
            [feedback |-> ActionFailed(err), browser |-> bb, ops |-> ops,
             raised |-> ops # {}]
        ok(fb, bb, ops) ==
            [feedback |-> fb, browser |-> bb, ops |-> ops, raised |-> FALSE]
        noLen == <<"object of type 'NoneType' has no len()">>
        noItem == <<"list index ", "out of range">>
    IN
    CASE action_type = "click" ->
           IF ~context.has THEN failed(noLen, b, {})
           ELSE IF InRange(ToInt(args.id), context.web_eles)
           THEN IF ToInt(args.id) >= Len(context.web_eles)
                THEN failed(noItem, b, {})
                ELSE
                LET ele == context.web_eles[ToInt(args.id) + 1]
                IN  IF ~alive \/ ele[1] # b.page \/ d.fail = "before"
                    THEN failed(ErrOf(d), b, {"click"})
                    ELSE IF d.fail = "after"
                    THEN failed(d.err, Navigated(b, d.nav), {"click"})
                    ELSE ok(<<"Clicked.">>, Navigated(b, d.nav), {"click"})
           ELSE ok(OutOfRange, b, {})
      [] action_type = "type" ->
           IF ~context.has THEN failed(noLen, b, {})
           ELSE IF InRange(ToInt(args.id), context.web_eles)
           THEN IF ToInt(args.id) >= Len(context.web_eles)
                THEN failed(noItem, b, {})
                ELSE
                LET ele == context.web_eles[ToInt(args.id) + 1]
                    typed == [b EXCEPT !.field = [ele |-> ele, content |-> args.content]]
                IN  IF ~alive \/ ele[1] # b.page \/ d.fail = "before"
                    THEN failed(ErrOf(d), b, {"type"})
                    ELSE IF d.fail = "after"
                    THEN failed(d.err, Navigated(typed, d.nav), {"type"})
                    ELSE ok(<<"Typed '">> \o args.content \o <<"'.">>,
                            Navigated(typed, d.nav), {"type"})
           ELSE ok(OutOfRange, b, {})
      [] action_type = "scroll" ->
           LET scrolled == <<"Scrolled ", args.direction, ".">>
           IN  IF args.target = <<"WINDOW">>
               THEN IF ~alive \/ d.fail # "none"
                    THEN failed(ErrOf(d), b, {"scroll_window"})
                    ELSE ok(scrolled, ScrolledWindow(b, args.direction),
                            {"scroll_window"})
               ELSE IF \E i \in 1..Len(args.target) : ~IsDigit(args.target[i])
               THEN failed(<<"invalid literal for int()">>, b, {})
               ELSE IF ~context.has THEN failed(noLen, b, {})
               ELSE IF InRange(ToInt(args.target), context.web_eles)
               THEN IF ToInt(args.target) >= Len(context.web_eles)
                    THEN failed(noItem, b, {})
                    ELSE
                    LET ele == context.web_eles[ToInt(args.target) + 1]
                    IN  IF ~alive \/ ele[1] # b.page \/ d.fail # "none"
                        THEN failed(ErrOf(d), b, {"scroll_element"})
                        ELSE ok(scrolled, b, {"scroll_element"})
               ELSE ok(scrolled, b, {})
      [] action_type = "wait" -> ok(<<"Waited 5s.">>, b, {})
      [] action_type = "goback" ->
           IF ~alive \/ d.fail = "before" THEN failed(ErrOf(d), b, {"back"})
           ELSE IF d.fail = "after" THEN failed(d.err, WentBack(b), {"back"})
           ELSE ok(<<"Went back.">>, WentBack(b), {"back"})
      [] action_type = "google" ->
           [feedback |-> <<"Navigated to Google.">>,
            browser |-> navigate(b, alive, "google", d),
            ops |-> {"get"},
            raised |-> ~alive \/ d.fail # "none"]
      [] OTHER -> ok(<<"Unknown Action.">>, b, {})

\* WebController.get_capture: element discovery fails softly, the screenshot
\* call is outside the try block and its exception leaves get_capture.  The
\* markers are removed only when rects is set (discovery returned) and the
\* cleanup loop is reached (the screenshot call returned).
get_capture(b, alive, c, id) ==
    LET mark_failed == ~alive \/ c.mark_fails
        shot_failed == ~alive \/ c.shot_fails
        injected == alive /\ c.marked
        cleaned == ~mark_failed /\ ~shot_failed
    IN  [raised |-> shot_failed,
         browser |-> [b EXCEPT !.markers = IF injected /\ ~cleaned
                                           THEN @ + 1 ELSE @],
         capture |-> [id |-> id, has |-> TRUE, page |-> b.page,
                      web_eles |-> IF mark_failed THEN <<>> ELSE ElementsOf(b.page),
                      web_text |-> IF mark_failed
                                   THEN "Error capturing element text."
                                   ELSE "elements",
                      labels |-> IF mark_failed THEN <<>>
                                 ELSE format_ele_text(ItemsOf(b.page))]]

(***************************************************************************)
(* WebController._wait_for_stable_url, one poll of the loop at a time.     *)
(* Time is counted in units of the 0.5 s sleep of a poll.                  *)
(***************************************************************************)
Urls == {"u1", "u2", "u3"}

\* the timeouts of the callers: 3.0 s after a click, 5.0 s otherwise
WaitTimeouts == {6, 10}

\* the time one iteration takes: the sleep alone, or the sleep and a slow
\* answer of the browser to current_url
PollTicks == {1, 7}

NoWait ==
    [pc |-> "idle", timeout |-> 0, end_time |-> 0, now |-> 0,
     last_url |-> "none", prev_url |-> "none", stable_counter |-> 0,
     polls |-> 0, timed_out |-> FALSE]

\* end_time = time.time() + timeout; last_url = self.driver.current_url
wait_start(timeout, url) ==
    [NoWait EXCEPT !.pc = "polling", !.timeout = timeout,
                   !.end_time = timeout, !.last_url = url]

\* one iteration of the while loop; last_url is the URL read last, prev_url
\* the URL read before it
wait_poll(w, dt, current_url) ==
    LET now == w.now + dt
    IN  IF current_url = w.last_url
        THEN [w EXCEPT !.now = now, !.polls = @ + 1,
                       !.prev_url = w.last_url,
                       !.stable_counter = @ + 1,
                       !.pc = IF w.stable_counter + 1 >= 2
                              THEN "returned" ELSE "polling"]
        ELSE [w EXCEPT !.now = now, !.polls = @ + 1,
                       !.prev_url = w.last_url,
                       !.last_url = current_url,
                       !.stable_counter = 0,
                       !.end_time = now + w.timeout]

(***************************************************************************)
(* BrowserEnvGroupBuilder and BrowserDataset.get_batch: the environments   *)
(* of a batch.  An object (a WebController, a dict) is the number of its   *)
(* allocation; an environment is reduced to the objects it holds and to    *)
(* whether a step of it is acting on its browser.                          *)
(***************************************************************************)
Tasks == {"t1", "t2"}

NoGroup == [envs |-> <<>>, builders |-> 0, objects |-> 0]

\* BrowserEnv.__init__ with a controller that all environments share
BrowserEnv_SharedController(task, g) ==
    [g EXCEPT !.envs = Append(@, [task |-> task, browser |-> 1,
                                  last_context |-> g.objects + 2,
                                  pc |-> "idle"]),
              !.objects = @ + 2]

\* BrowserEnv.__init__: self.browser = WebController(...) and
\* self.last_context = {} are objects made by this call
BrowserEnv(task, g) ==
    [g EXCEPT !.envs = Append(@, [task |-> task, browser |-> g.objects + 1,
                                  last_context |-> g.objects + 2,
                                  pc |-> "idle"]),
              !.objects = @ + 2]

\* BrowserEnvGroupBuilder.make_envs: one BrowserEnv for each entry of tasks
RECURSIVE make_envs(_, _)
make_envs(tasks, g) ==
    IF tasks = <<>> THEN g
    ELSE make_envs(Tail(tasks), BrowserEnv(Head(tasks), g))

\* the builder that get_batch makes for a task: tasks=[task] * group_size
get_batch(task, group_size) == [k \in 1..group_size |-> task]

(***************************************************************************)
(* Texts that the model may return.                                        *)
(***************************************************************************)
ModelOutputs ==
    { <<"Thought:", "x", "\n", "Action:", " ", "ANSWER", ";", " ", "x", " ", "is", " ", "the", " ", "capital">>,
      <<"Click", " ", "[", "5", "]">>,
      <<"Thought:", "x", "\n", "Action:", " ", "Type", " ", "[", "4", "]", ";", " ", "x">>,
      <<"Type", " ", "[", "1", "]", ";", " ", "Invalid Action Format">>,
      <<"Scroll", " ", "[", "WINDOW", "]", ";", " ", "[", "down", "]">>,
      <<"Scroll", " ", "[", "4", "]", ";", " ", "[", "up", "]">>,
      <<"Wait">>,
      <<"GoBack">>,
      <<"Google">>,
      <<"Action:", " ", "Frobnicate", " ", "[", "9", "]">> }

(***************************************************************************)
(* Texts that exercise the grammar: every action form in each letter case, *)
(* with and without brackets, followed by a second keyword, behind a       *)
(* Thought, and with up to MaxMarkers "Action:" markers.                   *)
(***************************************************************************)
\* the sequences over S of length 1 .. n
SeqsUpTo(S, n) == UNION {[1..k -> S] : k \in 1..n}

TextLabels == {"1", "3"}

ClickLines ==
    {<<k, " ", "[", n, "]">> : k \in {"Click", "click", "CLICK"}, n \in TextLabels}
    \cup {<<k, " ", n>> : k \in {"Click", "click", "CLICK"}, n \in TextLabels}

AnswerLines == {<<k, ";", " ", "x">> : k \in {"ANSWER", "answer", "Answer"}}

KeywordLines ==
    {<<k>> : k \in {"Wait", "wait", "WAIT", "GoBack", "goback", "GOBACK",
                    "Google", "google", "GOOGLE"}}

\* lines that more than one rule of the grammar accepts
OverlapLines ==
    { <<"ANSWER", ";", " ", "Wait", " ", "for", " ", "Google">>,
      <<"Click", " ", "[", "2", "]", " ", "Wait">>,
      <<"Type", " ", "[", "1", "]", ";", " ", "Google">>,
      <<"Scroll", " ", "[", "WINDOW", "]", ";", " ", "down", " ", "GoBack">>,
      <<"GoBack", " ", "Wait">>,
      <<"Google", " ", "Wait">>,
      <<"Google", " ", "GoBack">>,
      <<"ANSWER", ";", " ", "Invalid Action Format">> }

TypeHead(n) == <<"Type", " ", "[", n, "]", ";", " ">>

TypeLines ==
    {TypeHead(n) \o c : n \in TextLabels, c \in SeqsUpTo({"x", "[", "]"}, MaxContent)}
    \cup {TypeHead("1") \o <<"Invalid Action Format">>}

ScrollLines ==
    { <<"Scroll", " ", "[", "WINDOW", "]", ";", " ", "[", "down", "]">>,
      <<"scroll", " ", "1", ";", " ", "up">>,
      <<"Scroll", " ", "[", "7", "]", ";", " ", "[", "down", "]">>,
      <<"Scroll", " ", "WINDOW", ";", " ", "up">>,
      <<"Scroll", " ", "WINDOW", ";", " ", "UP">>,
      <<"Scroll", " ", "[", "WINDOW", "]", ";", " ", "[", "DOWN", "]">>,
      <<"scroll", " ", "[", "window", "]", ";", " ", "[", "DOWN", "]">>,
      <<"SCROLL", " ", "[", "Window", "]", ";", " ", "[", "Down", "]">> }

TextLines ==
    ClickLines \cup AnswerLines \cup KeywordLines \cup OverlapLines
    \cup TypeLines \cup ScrollLines \cup {<<"Frobnicate", " ", "[", "9", "]">>}

ThoughtPrefix == <<"Thought:", "x", "\n", "Action:", " ">>

\* the lines that stand behind the markers of a text with several markers
CoreLines ==
    { <<"Click", " ", "[", "1", "]">>, <<"Wait">>, <<"GoBack">>,
      <<"ANSWER", ";", " ", "x">>, <<"Frobnicate", " ", "[", "9", "]">> }

\* the texts with exactly k markers, each followed by a line of CoreLines
RECURSIVE Marked(_)
Marked(k) ==
    IF k = 1 THEN {<<"Action:", " ">> \o l : l \in CoreLines}
    ELSE {<<"Action:", " ">> \o l \o <<sep>> \o m :
             l \in CoreLines, sep \in {"\n", " "}, m \in Marked(k - 1)}

TextOutputs ==
    TextLines
    \cup {ThoughtPrefix \o l : l \in TextLines}
    \cup UNION {Marked(k) : k \in 1..MaxMarkers}

\* The parse of every text, computed once.
AllOutputs == ModelOutputs \cup TextOutputs

ActionLines == {ExtractActionLine(m) : m \in AllOutputs}

LineOf == [m \in AllOutputs |-> ExtractActionLine(m)]

Parsed ==
    [t \in ActionLines |->
        [kind |-> ParseKind(t), args |-> ParseArgs(t), text |-> Strip(t)]]

(***************************************************************************)
(* BrowserEnv: the episode controller.                                     *)
(***************************************************************************)
Msg(role, text, first, prefix, cap, web_text) ==
    [role |-> role, text |-> text, first |-> first, prefix |-> prefix,
     cap |-> cap, web_text |-> web_text]

\* {"role": "system", "content": sys_content}
SysMsg == Msg("system", <<>>, FALSE, <<>>, 0, "none")

\* {"role": "assistant", "content": model_content}
AssistantMsg(model_content) == Msg("assistant", model_content, FALSE, <<>>, 0, "none")

FormatError ==
    <<"Invalid Action Format",
      ". Please strictly follow the format: 'Click [id]', 'Type [id]; [content]', etc. Check your syntax and try again.">>

\* _format_msg without the write of self.last_context
format_msg_NoCache(st, warn_obs, context, b, alive, c, id) ==
    LET g == get_capture(b, alive, c, id)
    IN  IF g.raised
        THEN [raised |-> TRUE, browser |-> g.browser,
              last_context |-> context, msg |-> SysMsg]
        ELSE [raised |-> FALSE, browser |-> g.browser,
              last_context |-> context,
              msg |-> Msg("user", <<>>, st = 1,
                          IF st = 1 \/ warn_obs = <<>> THEN <<>>
                          ELSE <<"Observation: ">> \o warn_obs \o <<" ">>,
                          g.capture.id, g.capture.web_text)]

\* BrowserEnv._format_msg: takes a capture, caches it in last_context and
\* builds the user turn; an exception of get_capture leaves before the cache
\* is written.
format_msg(st, warn_obs, context, b, alive, c, id) ==
    LET g == get_capture(b, alive, c, id)
    IN  IF g.raised
        THEN [raised |-> TRUE, browser |-> g.browser,
              last_context |-> context, msg |-> SysMsg]
        ELSE [raised |-> FALSE, browser |-> g.browser,
              last_context |-> g.capture,
              msg |-> Msg("user", <<>>, st = 1,
                          IF st = 1 \/ warn_obs = <<>> THEN <<>>
                          ELSE <<"Observation: ">> \o warn_obs \o <<" ">>,
                          g.capture.id, g.capture.web_text)]

\* parse_and_execute that goes on to the Wait rule after another rule matched
parse_and_execute_EveryKeyword(action_text, context, b, alive, d) ==
    LET executed(k, args, text, r) ==
            [kind |-> k, args |-> args, feedback |-> r.feedback, done |-> FALSE,
             browser |-> r.browser, ops |-> r.ops,
             calls |-> IF k # "wait" /\ Contains(text, "Wait") THEN 2 ELSE 1,
             raised |-> r.raised]
        dispatch(p) ==
            IF p.kind = "answer"
            THEN [kind |-> p.kind, args |-> NoArgs,
                  feedback |-> <<"Answered", ": ">> \o p.text,
                  done |-> TRUE, browser |-> b, ops |-> {}, calls |-> 0,
                  raised |-> FALSE]
            ELSE IF p.kind = "invalid"
            THEN [kind |-> p.kind, args |-> NoArgs, feedback |-> FormatError,
                  done |-> FALSE, browser |-> b, ops |-> {}, calls |-> 0,
                  raised |-> FALSE]
            ELSE executed(p.kind, p.args, p.text,
                          execute_raw_action(p.kind, p.args, context, b, alive, d))
    IN  dispatch(Parsed[action_text])

\* parse_and_execute whose last rule, Google, has lost its test: a text that
\* matches no earlier rule navigates to Google
parse_and_execute_LastRuleUntested(action_text, context, b, alive, d) ==
    LET executed(k, args, r) ==
            [kind |-> k, args |-> args, feedback |-> r.feedback, done |-> FALSE,
             browser |-> r.browser, ops |-> r.ops, calls |-> 1,
             raised |-> r.raised]
        dispatch(p) ==
            IF p.kind = "answer"
            THEN [kind |-> p.kind, args |-> NoArgs,
                  feedback |-> <<"Answered", ": ">> \o p.text,
                  done |-> TRUE, browser |-> b, ops |-> {}, calls |-> 0,
                  raised |-> FALSE]
            ELSE IF p.kind = "invalid"
            THEN executed("google", NoArgs,
                          execute_raw_action("google", NoArgs, context, b, alive, d))
            ELSE executed(p.kind, p.args,
                          execute_raw_action(p.kind, p.args, context, b, alive, d))
    IN  dispatch(Parsed[action_text])

\* BrowserEnv._parse_and_execute
parse_and_execute(action_text, context, b, alive, d) ==
    LET executed(k, args, r) ==
            [kind |-> k, args |-> args, feedback |-> r.feedback, done |-> FALSE,
             browser |-> r.browser, ops |-> r.ops, calls |-> 1,
             raised |-> r.raised]
        dispatch(p) ==
            IF p.kind = "answer"
            THEN [kind |-> p.kind, args |-> NoArgs,
                  feedback |-> <<"Answered", ": ">> \o p.text,
                  done |-> TRUE, browser |-> b, ops |-> {}, calls |-> 0,
                  raised |-> FALSE]
            ELSE IF p.kind = "invalid"
            THEN [kind |-> p.kind, args |-> NoArgs, feedback |-> FormatError,
                  done |-> FALSE, browser |-> b, ops |-> {}, calls |-> 0,
                  raised |-> FALSE]
            ELSE executed(p.kind, p.args,
                          execute_raw_action(p.kind, p.args, context, b, alive, d))
    IN  dispatch(Parsed[action_text])

\* Reward without the penalty branch
Reward_NoPenalty(feedback, episode_done) ==
    IF episode_done /\ Contains(feedback, "Answered") THEN 1 ELSE 0

\* Reward with the penalty branch tested first
Reward_PenaltyFirst(feedback, episode_done) ==
    IF Contains(feedback, "Invalid Action Format") THEN -1
    ELSE IF episode_done /\ Contains(feedback, "Answered") THEN 1
    ELSE 0

\* step, "3. Reward Calculation"
Reward(feedback, episode_done) ==
    IF episode_done /\ Contains(feedback, "Answered") THEN 1
    ELSE IF Contains(feedback, "Invalid Action Format") THEN -1
    ELSE 0

\* metrics={"success": float(reward > 0), "format_error": float(reward < 0)}
Metrics(reward) ==
    [success |-> IF reward > 0 THEN 1 ELSE 0,
     format_error |-> IF reward < 0 THEN 1 ELSE 0]

\* what the last call of an operation of the environment did and returned
NoCall ==
    [call |-> "none", raised |-> FALSE, text |-> <<>>, line |-> <<>>,
     kind |-> "none", args |-> NoArgs,
     feedback |-> <<>>, episode_done |-> FALSE, reward |-> 0,
     metrics |-> Metrics(0), next_empty |-> FALSE, calls |-> 0,
     captures |-> 0, ops |-> {}, driver_raised |-> FALSE,
     context |-> NoContext, before |-> NoContext, prompt |-> <<>>]

\* WebController.close: self.driver is assigned once, in _init_driver
close(drv) ==
    IF drv.ref THEN [drv EXCEPT !.alive = FALSE, !.quits = @ + 1] ELSE drv

\* initial_observation without the assignment self.steps = 1
initial_observation_NoReset(c) ==
    LET fm == format_msg(1, <<>>, last_context, browser, driver.alive, c, capSeq + 1)
    IN  /\ steps' = steps
        /\ capSeq' = capSeq + 1
        /\ last_context' = fm.last_context
        /\ history' = IF fm.raised THEN history ELSE <<SysMsg, fm.msg>>
        /\ last' = [NoCall EXCEPT !.call = "initial_observation",
                                  !.raised = fm.raised, !.captures = 1,
                                  !.before = last_context,
                                  !.ops = {"capture"},
                                  !.prompt = IF fm.raised THEN <<>>
                                             ELSE <<SysMsg, fm.msg>>]
        /\ faults' = faults + CaptureFaults(c)
        /\ browser' = fm.browser
        /\ UNCHANGED <<done, driver, wait, group, m2w>>

\* BrowserEnv.initial_observation
initial_observation(c) ==
    LET fm == format_msg(1, <<>>, last_context, browser, driver.alive, c, capSeq + 1)
    IN  /\ steps' = 1
        /\ capSeq' = capSeq + 1
        /\ last_context' = fm.last_context
        /\ history' = IF fm.raised THEN history ELSE <<SysMsg, fm.msg>>
        /\ last' = [NoCall EXCEPT !.call = "initial_observation",
                                  !.raised = fm.raised, !.captures = 1,
                                  !.before = last_context,
                                  !.ops = {"capture"},
                                  !.prompt = IF fm.raised THEN <<>>
                                             ELSE <<SysMsg, fm.msg>>]
        /\ faults' = faults + CaptureFaults(c)
        /\ browser' = fm.browser
        /\ UNCHANGED <<done, driver, wait, group, m2w>>

\* BrowserEnv.step, the same in env.py and env_step.py but for the test of
\* _format_msg that tells the first turn: st is 1 when that test holds at
\* the call of _format_msg
step_from(model_content, d, c, st) ==
    LET returned(action_line, r, fm) ==
            LET reward == Reward(r.feedback, r.done)
                raised == ~r.done /\ fm.raised
                result == [NoCall EXCEPT
                              !.call = "step", !.raised = raised,
                              !.text = model_content,
                              !.line = action_line, !.kind = r.kind,
                              !.args = r.args,
                              !.feedback = r.feedback,
                              !.calls = r.calls,
                              !.driver_raised = r.raised,
                              !.captures = IF r.done THEN 0 ELSE 1,
                              !.ops = r.ops \cup (IF r.done THEN {} ELSE {"capture"}),
                              !.context = IF r.calls = 1 THEN last_context ELSE NoContext,
                              !.before = last_context]
            IN  /\ steps' = steps + 1
                /\ browser' = IF r.done THEN r.browser ELSE fm.browser
                /\ capSeq' = IF r.done THEN capSeq ELSE capSeq + 1
                /\ last_context' = IF r.done THEN last_context ELSE fm.last_context
                /\ history' = IF r.done \/ fm.raised
                              THEN Append(history, AssistantMsg(model_content))
                              ELSE history \o <<AssistantMsg(model_content), fm.msg>>
                /\ last' = IF raised THEN result
                           ELSE [result EXCEPT !.episode_done = r.done,
                                               !.reward = reward,
                                               !.metrics = Metrics(reward),
                                               !.next_empty = r.done,
                                               !.prompt = IF r.done THEN <<>>
                                                          ELSE history']
                /\ faults' = faults + (IF r.ops = {} THEN 0 ELSE DriverFaults(d))
                                  + (IF r.done THEN 0 ELSE CaptureFaults(c))
                /\ UNCHANGED <<done, driver, wait, group, m2w>>
        executed(action_line, r) ==
            returned(action_line, r,
                     format_msg(st, r.feedback, last_context, r.browser,
                                driver.alive, c, capSeq + 1))
    IN  executed(LineOf[model_content],
                 parse_and_execute(LineOf[model_content], last_context, browser,
                                   driver.alive, d))

\* BrowserEnv.step of env.py: _format_msg tests self.steps == 1, after
\* self.steps += 1
step(model_content, d, c) == step_from(model_content, d, c, steps + 1)

(***************************************************************************)
(* env_step.py: the variant of the environment whose task carries a seed   *)
(* history, and its data buffer.  m2w.task_history is the list that the    *)
(* task holds, m2w.buffer the dict of the process-wide data_buffer (its    *)
(* domain is the set of keys present), m2w.log the calls of                *)
(* add_step_result in their order.                                         *)
(***************************************************************************)
AnnotationIds == {"a1", "a2"}

NoResult == [call |-> "none", returned |-> <<>>, key |-> <<>>, rewards |-> <<>>]

NoM2W ==
    [task_history |-> <<>>, seed |-> <<>>, heap |-> <<>>, envs |-> <<>>,
     annotation_id |-> "none", trajectories |-> <<>>, pending |-> FALSE,
     buffer |-> <<>>, log |-> <<>>, calls |-> 0, result |-> NoResult]

\* a user turn and an assistant turn of an earlier step, as the data buffer
\* hands them to a task
SeedUser == Msg("user", <<>>, TRUE, <<>>, 0, "elements")

SeedAssistant == AssistantMsg(<<"Click", " ", "[", "5", "]">>)

\* k buffered pairs
RECURSIVE SeedPairs(_)
SeedPairs(k) ==
    IF k = 0 THEN <<>> ELSE SeedPairs(k - 1) \o <<SeedUser, SeedAssistant>>

\* the seed histories: none, or up to MaxSeedPairs buffered pairs
Seeds == {SeedPairs(k) : k \in 0..MaxSeedPairs}

\* _format_msg of env_step.py: the test self.steps == 1 of env.py is
\* len(self.history) <= 2 here, h being self.history at the call
format_msg_seeded(h, warn_obs, context, b, alive, c, id) ==
    format_msg(IF Len(h) <= 2 THEN 1 ELSE 2, warn_obs, context, b, alive, c, id)

\* initial_observation that assigns [system, user] whatever the history is
initial_observation_seeded_Replace(c) ==
    LET fm == format_msg_seeded(history, <<>>, last_context, browser,
                                driver.alive, c, capSeq + 1)
    IN  /\ steps' = 1
        /\ capSeq' = capSeq + 1
        /\ last_context' = fm.last_context
        /\ history' = IF fm.raised THEN history ELSE <<SysMsg, fm.msg>>
        /\ last' = [NoCall EXCEPT !.call = "initial_observation",
                                  !.raised = fm.raised, !.captures = 1,
                                  !.before = last_context,
                                  !.ops = {"capture"},
                                  !.prompt = IF fm.raised THEN <<>> ELSE history']
        /\ faults' = faults + CaptureFaults(c)
        /\ browser' = fm.browser
        /\ UNCHANGED <<done, driver, wait, group, m2w>>

\* BrowserEnv.initial_observation of env_step.py
initial_observation_seeded(c) ==
    LET fm == format_msg_seeded(history, <<>>, last_context, browser,
                                driver.alive, c, capSeq + 1)
    IN  /\ steps' = 1
        /\ capSeq' = capSeq + 1
        /\ last_context' = fm.last_context
        /\ history' = IF fm.raised THEN history
                      ELSE IF history = <<>> THEN <<SysMsg, fm.msg>>
                      ELSE Append(history, fm.msg)
        /\ last' = [NoCall EXCEPT !.call = "initial_observation",
                                  !.raised = fm.raised, !.captures = 1,
                                  !.before = last_context,
                                  !.ops = {"capture"},
                                  !.prompt = IF fm.raised THEN <<>> ELSE history']
        /\ faults' = faults + CaptureFaults(c)
        /\ browser' = fm.browser
        /\ UNCHANGED <<done, driver, wait, group, m2w>>

\* BrowserEnv.step of env_step.py: _format_msg tests len(self.history) <= 2,
\* after the assistant turn was appended
step_seeded(model_content, d, c) ==
    step_from(model_content, d, c, IF Len(history) + 1 <= 2 THEN 1 ELSE 2)

\* an add_step_result that assigns the pair to the key instead of extending
\* the list found there
add_step_result_Replace(buffer, annotation_id, step_index, model_input, model_output) ==
    LET key == <<annotation_id, step_index + 1>>
    IN  [k \in DOMAIN buffer \cup {key} |->
            IF k = key THEN <<model_input, model_output>> ELSE buffer[k]]

\* Mind2WebDataBuffer.add_step_result
add_step_result(buffer, annotation_id, step_index, model_input, model_output) ==
    LET key == <<annotation_id, step_index + 1>>
        old == IF key \in DOMAIN buffer THEN buffer[key] ELSE <<>>
    IN  [k \in DOMAIN buffer \cup {key} |->
            IF k = key THEN old \o <<model_input, model_output>> ELSE buffer[k]]

\* Mind2WebDataBuffer.get_history_for_step: self.buffer.get(key, []); the
\* buffer after the call is part of the result
get_history_for_step(buffer, annotation_id, step_index) ==
    LET key == <<annotation_id, step_index>>
    IN  [history |-> IF key \in DOMAIN buffer THEN buffer[key] ELSE <<>>,
         buffer |-> buffer]

\* update_data_buffer_after_rollout, h being env.history
update_data_buffer_after_rollout(buffer, annotation_id, step_index, h) ==
    IF Len(h) >= 2
    THEN add_step_result(buffer, annotation_id, step_index,
                         h[Len(h) - 1], h[Len(h)])
    ELSE buffer

(***************************************************************************)
(* env_step.py, the environments of one group: lists are objects.  List 0  *)
(* is task.history (m2w.task_history); list i > 0 is m2w.heap[i], made by  *)
(* the constructor of environment i.  m2w.envs[i].history is the list that *)
(* self.history of environment i refers to.  A turn is reduced to its      *)
(* role, the environment that made it (0: the seed) and its number.        *)
(***************************************************************************)
Turn(role, env, n) == [role |-> role, env |-> env, n |-> n]

\* a seed history as turns of the seed
TurnsOf(seed) == [j \in 1..Len(seed) |-> Turn(seed[j].role, 0, j)]

\* the list that a reference denotes
ListOf(m, ref) == IF ref = 0 THEN m.task_history ELSE m.heap[ref]

\* the lists after list.append / list.extend on the list of a reference
Extended(m, ref, turns) ==
    IF ref = 0 THEN [m EXCEPT !.task_history = @ \o turns]
    ELSE [m EXCEPT !.heap[ref] = @ \o turns]

\* BrowserEnv.__init__ with self.history = task.history, without the copy
BrowserEnv_seeded_NoCopy(m) ==
    [m EXCEPT !.envs = Append(@, [history |-> 0, steps |-> 0,
                                  episode_done |-> FALSE]),
              !.heap = Append(@, <<>>)]

\* BrowserEnv.__init__ of env_step.py:
\* self.history = list(task.history) if task.history else []
BrowserEnv_seeded(m) ==
    [m EXCEPT !.envs = Append(@, [history |-> Len(m.envs) + 1, steps |-> 0,
                                  episode_done |-> FALSE]),
              !.heap = Append(@, m.task_history)]

\* BrowserEnvGroupBuilder.make_envs of env_step.py for tasks = [task] * n
RECURSIVE make_envs_seeded(_, _)
make_envs_seeded(n, m) ==
    IF n = 0 THEN m ELSE make_envs_seeded(n - 1, BrowserEnv_seeded(m))

\* initial_observation of env_step.py on environment i, its effect on the
\* lists: an empty history is replaced by a new list [system, user], a
\* history with turns is appended to
history_initial_observation(m, i) ==
    LET ref == m.envs[i].history
        counted == [m EXCEPT !.envs[i].steps = 1]
    IN  IF ListOf(m, ref) = <<>>
        THEN [counted EXCEPT !.envs[i].history = i,
                             !.heap[i] = <<Turn("system", i, 0), Turn("user", i, 1)>>]
        ELSE Extended(counted, ref, <<Turn("user", i, 1)>>)

\* step of env_step.py on environment i, its effect on the lists: the
\* assistant turn, and the next user turn when the step is not terminal
history_step(m, i, episode_done) ==
    LET ref == m.envs[i].history
        n == m.envs[i].steps + 1
        counted == [m EXCEPT !.envs[i].steps = n,
                             !.envs[i].episode_done = episode_done]
    IN  Extended(counted, ref,
                 IF episode_done THEN <<Turn("assistant", i, n)>>
                 ELSE <<Turn("assistant", i, n), Turn("user", i, n)>>)

(***************************************************************************)
(* env_step.py, compute_group_rewards.  A trajectory is the sequence of    *)
(* its transitions, each with the episode_done and the reward of a step.   *)
(***************************************************************************)
\* the StepResults that step returns: no penalty, format penalty, answer
StepOutcomes ==
    { [episode_done |-> FALSE, reward |-> 0],
      [episode_done |-> FALSE, reward |-> -1],
      [episode_done |-> TRUE, reward |-> 1] }

\* the numbers of steps of a rollout
TrajectoryLengths == {0, 1, 2}

\* a rollout ends with the step that returns episode_done, or earlier
Trajectories ==
    UNION { {t \in [1..n -> StepOutcomes] :
                \A k \in 1..(n - 1) : ~t[k].episode_done} :
            n \in TrajectoryLengths }

\* sum([step.reward for step in trajectory.steps])
RECURSIVE total_reward(_)
total_reward(steps_) ==
    IF steps_ = <<>> THEN 0 ELSE Head(steps_).reward + total_reward(Tail(steps_))

\* the index of a highest reward, the last one when several are equal
best_idx_LastOnTie(rewards) ==
    CHOOSE i \in DOMAIN rewards :
        /\ \A j \in DOMAIN rewards : rewards[j] <= rewards[i]
        /\ \A j \in DOMAIN rewards : j > i => rewards[j] < rewards[i]

\* max(range(len(rewards)), key=lambda i: rewards[i][0]): max returns the
\* first of several equal maxima
best_idx(rewards) ==
    CHOOSE i \in DOMAIN rewards :
        /\ \A j \in DOMAIN rewards : rewards[j] <= rewards[i]
        /\ \A j \in DOMAIN rewards : j < i => rewards[j] < rewards[i]

\* BrowserEnvGroupBuilder.compute_group_rewards on the environments m.envs.
\* added: the call of add_step_result that was made, if any.
compute_group_rewards(m, annotation_id, trajectory_group) ==
    LET rewards == [i \in DOMAIN trajectory_group |->
                       total_reward(trajectory_group[i])]
        returned == [i \in DOMAIN trajectory_group |->
                       [reward |-> 0, metrics |-> <<>>]]
        none == [buffer |-> m.buffer, returned |-> returned, added |-> <<>>,
                 rewards |-> rewards]
        stored(best_env, h) ==
            IF Len(h) >= 2
            THEN [buffer |-> add_step_result(m.buffer, annotation_id,
                                             best_env.steps - 1,
                                             h[Len(h) - 1], h[Len(h)]),
                  returned |-> returned,
                  added |-> <<[annotation_id |-> annotation_id,
                               step_index |-> best_env.steps - 1,
                               model_input |-> h[Len(h) - 1],
                               model_output |-> h[Len(h)]]>>,
                  rewards |-> rewards]
            ELSE none
        best(i) ==
            IF i <= Len(m.envs) /\ trajectory_group[i] # <<>>
            THEN stored(m.envs[i], ListOf(m, m.envs[i].history))
            ELSE none
    IN  IF rewards = <<>> THEN none ELSE best(best_idx(rewards))

\* the environments of a group after their rollouts: each has taken its
\* first observation and made the steps of its trajectory
RECURSIVE Replay(_, _, _)
Replay(m, i, steps_) ==
    IF steps_ = <<>> THEN m
    ELSE Replay(history_step(m, i, Head(steps_).episode_done), i, Tail(steps_))

RECURSIVE RolledOut(_, _, _)
RolledOut(m, trajectory_group, i) ==
    IF i > Len(trajectory_group) THEN m
    ELSE RolledOut(Replay(history_initial_observation(m, i), i,
                          trajectory_group[i]),
                   trajectory_group, i + 1)

(***************************************************************************)
(* The environment driven through its interface: initial_observation,      *)
(* then step and close in any order.  At most MaxFaults driver calls of    *)
(* an episode raise.  Constructed is the state after BrowserEnv.__init__.  *)
(***************************************************************************)
ConstructedOn(start_url) ==
    /\ steps = 0
    /\ history = <<>>
    /\ last_context = NoContext
    /\ done = FALSE
    /\ driver = [ref |-> TRUE, alive |-> TRUE, quits |-> 0]
    /\ browser = [page |-> start_url, nav |-> <<>>, scroll |-> 0, field |-> NoField,
                  markers |-> 0]
    /\ capSeq = 0
    /\ faults = 0
    /\ last = NoCall
    /\ step_count = 0
    /\ run_done = FALSE
    /\ ended_by = "none"
    /\ wait = NoWait
    /\ group = NoGroup
    /\ m2w = NoM2W

Constructed == ConstructedOn("start")

Init == Constructed /\ pc = "new"

InitialObservation ==
    /\ pc = "new"
    /\ pc' = "observed"
    /\ \E c \in CaptureOutcomes : initial_observation(c)
    /\ faults' <= MaxFaults
    /\ UNCHANGED runVars

\* A driver that has quit raises on every call, so a step on it has one
\* outcome: the outcome without an injected failure.
Step ==
    /\ pc = "observed"
    /\ steps <= MaxSteps
    /\ \E m \in ModelOutputs, d \in DriverOutcomes, c \in CaptureOutcomes :
           /\ driver.alive \/ (/\ DriverFaults(d) = 0 /\ d.nav = "stay"
                                /\ CaptureFaults(c) = 0)
           /\ step(m, d, c)
    /\ faults' <= MaxFaults
    /\ UNCHANGED <<pc, runVars>>

Close ==
    /\ pc = "observed"
    /\ driver.quits < MaxCloses
    /\ driver' = close(driver)
    /\ last' = [NoCall EXCEPT !.call = "close", !.before = last_context,
                              !.ops = IF driver' # driver THEN {"quit"} ELSE {}]
    /\ UNCHANGED <<steps, history, last_context, done, browser, capSeq, faults>>
    /\ UNCHANGED <<pc, runVars, wait, group, m2w>>

Next == InitialObservation \/ Step \/ Close

Spec == Init /\ [][Next]_vars

(***************************************************************************)
(* run_single_episode of run.py: the orchestration loop around one         *)
(* environment, with env.browser.close() in its finally clause.            *)
(***************************************************************************)
max_steps == 3

RunOutputs ==
    { <<"Thought:", "x", "\n", "Action:", " ", "ANSWER", ";", " ", "x", " ", "is", " ", "the", " ", "capital">>,
      <<"Click", " ", "[", "5", "]">>,
      <<"Google">>,
      <<"Action:", " ", "Frobnicate", " ", "[", "9", "]">> }

RunInit == Constructed /\ pc = "start"

\* obs, stop_condition = await env.initial_observation()
RunInitialObservation ==
    /\ pc = "start"
    /\ \E c \in CaptureOutcomes : initial_observation(c)
    /\ faults' <= MaxFaults
    /\ pc' = IF last'.raised THEN "finally" ELSE "loop"
    /\ ended_by' = IF last'.raised THEN "exception" ELSE ended_by
    /\ UNCHANGED <<step_count, run_done>>

\* one iteration of the while loop that reaches env.step(action)
RunStep ==
    /\ pc = "loop"
    /\ ~run_done /\ step_count < max_steps
    /\ step_count' = step_count + 1
    /\ \E m \in RunOutputs, d \in DriverOutcomes, c \in CaptureOutcomes :
           step(m, d, c)
    /\ faults' <= MaxFaults
    /\ pc' = IF last'.raised THEN "finally" ELSE "loop"
    /\ run_done' = IF last'.raised THEN run_done ELSE last'.episode_done
    /\ ended_by' = IF last'.raised THEN "exception" ELSE ended_by

\* if not result.sequences: break
RunNoSequences ==
    /\ pc = "loop"
    /\ ~run_done /\ step_count < max_steps
    /\ step_count' = step_count + 1
    /\ pc' = "finally"
    /\ ended_by' = "no_sequences"
    /\ UNCHANGED <<envVars, run_done, wait, group, m2w>>

\* the loop condition is false: the episode is done or the budget is spent
RunLoopExit ==
    /\ pc = "loop"
    /\ ~(~run_done /\ step_count < max_steps)
    /\ pc' = "finally"
    /\ ended_by' = IF run_done THEN "answer" ELSE "max_steps"
    /\ UNCHANGED <<envVars, step_count, run_done, wait, group, m2w>>

\* RunFinally without the call of close
RunFinally_NoClose ==
    /\ pc = "finally"
    /\ pc' = "finished"
    /\ UNCHANGED <<envVars, step_count, run_done, ended_by, wait, group, m2w>>

\* finally: env.browser.close()
RunFinally ==
    /\ pc = "finally"
    /\ driver' = close(driver)
    /\ last' = [NoCall EXCEPT !.call = "close", !.before = last_context,
                              !.ops = IF driver' # driver THEN {"quit"} ELSE {}]
    /\ pc' = "finished"
    /\ UNCHANGED <<steps, history, last_context, done, browser, capSeq, faults,
                   step_count, run_done, ended_by, wait, group, m2w>>

RunNext ==
    \/ RunInitialObservation
    \/ RunStep
    \/ RunNoSequences
    \/ RunLoopExit
    \/ RunFinally

RunSpec == RunInit /\ [][RunNext]_vars

(***************************************************************************)
(* One turn of an episode for each text of TextOutputs: the episode starts *)
(* on any page, takes its first observation and makes one step.            *)
(***************************************************************************)
TextInit == \E start_url \in Pages : ConstructedOn(start_url) /\ pc = "new"

TextStep ==
    /\ pc = "observed"
    /\ steps = 1
    /\ \E m \in TextOutputs, d \in DriverOutcomes, c \in CaptureOutcomes :
           step(m, d, c)
    /\ faults' <= MaxFaults
    /\ pc' = "stepped"
    /\ UNCHANGED runVars

TextNext == InitialObservation \/ TextStep

TextSpec == TextInit /\ [][TextNext]_vars

(***************************************************************************)
(* One call of _wait_for_stable_url against a browser that may report any  *)
(* URL at each poll.                                                       *)
(***************************************************************************)
WaitInit == Constructed /\ pc = "wait"

WaitStart ==
    /\ wait.pc = "idle"
    /\ \E timeout \in WaitTimeouts, url \in Urls :
           wait' = wait_start(timeout, url)
    /\ UNCHANGED <<envVars, pc, runVars, group, m2w>>

\* while time.time() < end_time: one more poll
WaitPoll ==
    /\ wait.pc = "polling"
    /\ wait.now < wait.end_time
    /\ wait.polls < MaxPolls
    /\ \E dt \in PollTicks, current_url \in Urls :
           wait' = wait_poll(wait, dt, current_url)
    /\ UNCHANGED <<envVars, pc, runVars, group, m2w>>

\* the loop condition is false: the function returns without an error
WaitTimeout ==
    /\ wait.pc = "polling"
    /\ ~(wait.now < wait.end_time)
    /\ wait' = [wait EXCEPT !.pc = "returned", !.timed_out = TRUE]
    /\ UNCHANGED <<envVars, pc, runVars, group, m2w>>

WaitNext == WaitStart \/ WaitPoll \/ WaitTimeout

WaitSpec == WaitInit /\ [][WaitNext]_vars


(***************************************************************************)
(* The first call on a new environment: BrowserEnv has no guard on the     *)
(* order of its calls, so the caller may call step on an environment whose *)
(* initial_observation has not run (steps = 0, last_context = {}).         *)
(***************************************************************************)
EarlyInit == TextInit

EarlyStep ==
    /\ pc = "new"
    /\ \E m \in ModelOutputs \cup KeywordLines \cup ClickLines,
          d \in DriverOutcomes, c \in CaptureOutcomes :
           step(m, d, c)
    /\ faults' <= MaxFaults
    /\ pc' = "stepped"
    /\ UNCHANGED runVars

EarlyNext == InitialObservation \/ EarlyStep

EarlySpec == EarlyInit /\ [][EarlyNext]_vars


(***************************************************************************)
(* The environments of a batch stepped concurrently: the builders of       *)
(* get_batch make their environments, and the steps of different           *)
(* environments begin and end in any order.  The steps of one environment  *)
(* follow each other, as its rollout awaits each step.                     *)
(***************************************************************************)
GroupInit == Constructed /\ pc = "group"

GroupMakeEnvs ==
    /\ group.builders < MaxBatch
    /\ \E task \in Tasks, group_size \in 1..MaxGroup :
           group' = [make_envs(get_batch(task, group_size), group)
                        EXCEPT !.builders = @ + 1]
    /\ UNCHANGED <<envVars, pc, runVars, wait, m2w>>

\* a step of environment i hands its action to the browser of i
GroupStepBegin ==
    /\ \E i \in DOMAIN group.envs :
           /\ group.envs[i].pc = "idle"
           /\ group' = [group EXCEPT !.envs[i].pc = "acting"]
    /\ UNCHANGED <<envVars, pc, runVars, wait, m2w>>

\* the step of environment i returns
GroupStepEnd ==
    /\ \E i \in DOMAIN group.envs :
           /\ group.envs[i].pc = "acting"
           /\ group' = [group EXCEPT !.envs[i].pc = "idle"]
    /\ UNCHANGED <<envVars, pc, runVars, wait, m2w>>

GroupNext == GroupMakeEnvs \/ GroupStepBegin \/ GroupStepEnd

GroupSpec == GroupInit /\ [][GroupNext]_vars


(***************************************************************************)
(* An episode of env_step.py: the environment starts from a copy of the    *)
(* seed history of its task, takes its first observation, makes steps, and *)
(* update_data_buffer_after_rollout stores the last turns of its history.  *)
(***************************************************************************)
SeedInit ==
    \E seed \in Seeds :
        /\ steps = 0
        /\ history = seed
        /\ last_context = NoContext
        /\ done = FALSE
        /\ driver = [ref |-> TRUE, alive |-> TRUE, quits |-> 0]
        /\ browser = [page |-> "start", nav |-> <<>>, scroll |-> 0,
                      field |-> NoField, markers |-> 0]
        /\ capSeq = 0
        /\ faults = 0
        /\ last = NoCall
        /\ step_count = 0
        /\ run_done = FALSE
        /\ ended_by = "none"
        /\ wait = NoWait
        /\ group = NoGroup
        /\ m2w = [NoM2W EXCEPT !.task_history = seed, !.seed = seed]
        /\ pc = "new"

SeedInitialObservation ==
    /\ pc = "new"
    /\ pc' = "observed"
    /\ \E c \in CaptureOutcomes : initial_observation_seeded(c)
    /\ faults' <= MaxFaults
    /\ UNCHANGED runVars

SeedStep ==
    /\ pc = "observed"
    /\ steps <= MaxSteps
    /\ ~last.raised /\ ~last.episode_done
    /\ \E m \in RunOutputs, d \in DriverOutcomes, c \in CaptureOutcomes :
           step_seeded(m, d, c)
    /\ faults' <= MaxFaults
    /\ UNCHANGED <<pc, runVars>>

\* update_data_buffer_after_rollout(annotation_id, step_index, env) after a
\* step of the rollout has returned
SeedUpdateBuffer ==
    /\ pc = "observed"
    /\ last.call = "step" /\ ~last.raised
    /\ \E annotation_id \in AnnotationIds :
           m2w' = [m2w EXCEPT
                      !.buffer = update_data_buffer_after_rollout(
                                     @, annotation_id, steps - 1, history),
                      !.log = IF Len(history) >= 2
                              THEN Append(@, [annotation_id |-> annotation_id,
                                              step_index |-> steps - 1,
                                              model_input |-> history[Len(history) - 1],
                                              model_output |-> history[Len(history)]])
                              ELSE @,
                      !.calls = @ + 1]
    /\ pc' = "buffered"
    /\ UNCHANGED <<envVars, runVars, wait, group>>

SeedNext == SeedInitialObservation \/ SeedStep \/ SeedUpdateBuffer

SeedSpec == SeedInit /\ [][SeedNext]_vars


(***************************************************************************)
(* The sibling environments of env_step.py: get_batch builds group_size    *)
(* environments from one task object, and their rollouts call              *)
(* initial_observation and step in any order.                              *)
(***************************************************************************)
SiblingInit == Constructed /\ pc = "siblings"

\* the task with its seed history, and make_envs for [task] * group_size
SiblingMakeEnvs ==
    /\ m2w.envs = <<>>
    /\ \E seed \in Seeds, group_size \in 1..MaxGroup :
           m2w' = make_envs_seeded(group_size,
                                   [m2w EXCEPT !.task_history = TurnsOf(seed),
                                               !.seed = TurnsOf(seed)])
    /\ UNCHANGED <<envVars, pc, runVars, wait, group>>

SiblingInitialObservation ==
    /\ \E i \in DOMAIN m2w.envs :
           /\ m2w.envs[i].steps = 0
           /\ m2w' = history_initial_observation(m2w, i)
    /\ UNCHANGED <<envVars, pc, runVars, wait, group>>

SiblingStep ==
    /\ \E i \in DOMAIN m2w.envs, episode_done \in BOOLEAN :
           /\ m2w.envs[i].steps >= 1
           /\ m2w.envs[i].steps <= MaxSteps
           /\ ~m2w.envs[i].episode_done
           /\ m2w' = history_step(m2w, i, episode_done)
    /\ UNCHANGED <<envVars, pc, runVars, wait, group>>

SiblingNext == SiblingMakeEnvs \/ SiblingInitialObservation \/ SiblingStep

SiblingSpec == SiblingInit /\ [][SiblingNext]_vars


(***************************************************************************)
(* The data buffer of env_step.py under the groups of a batch: each        *)
(* builder rolls its group out and calls compute_group_rewards once.       *)
(* compute_group_rewards and add_step_result contain no await, so a call   *)
(* runs to its end before another coroutine runs: calls of different       *)
(* builders happen in any order, each as a whole.  Rollouts do not touch   *)
(* the buffer.  A reader calls get_history_for_step afterwards.            *)
(***************************************************************************)
Builders == {"b1", "b2"}

StepIndexes == {1, 2, 3}

BufferInit == Constructed /\ pc = "buffer"

\* the group of a builder is made from a task and rolled out
BufferRollout ==
    /\ pc = "buffer"
    /\ ~m2w.pending
    /\ m2w.calls < Cardinality(Builders)
    /\ \E annotation_id \in AnnotationIds, seed \in {<<>>, SeedPairs(1)},
          group_size \in 0..MaxGroup :
         \E trajectory_group \in [1..group_size -> Trajectories] :
           m2w' = [RolledOut(
                      make_envs_seeded(group_size,
                                       [m2w EXCEPT !.task_history = TurnsOf(seed),
                                                   !.seed = TurnsOf(seed),
                                                   !.envs = <<>>,
                                                   !.heap = <<>>]),
                      trajectory_group, 1)
                   EXCEPT !.annotation_id = annotation_id,
                          !.trajectories = trajectory_group,
                          !.pending = TRUE]
    /\ UNCHANGED <<envVars, pc, runVars, wait, group>>

\* compute_group_rewards(trajectory_group, env_group) of the builder; the
\* group is dropped after the call
BufferComputeGroupRewards ==
    /\ pc = "buffer"
    /\ m2w.pending
    /\ LET r == compute_group_rewards(m2w, m2w.annotation_id, m2w.trajectories)
       IN  m2w' = [m2w EXCEPT !.buffer = r.buffer,
                              !.log = @ \o r.added,
                              !.calls = @ + 1,
                              !.pending = FALSE,
                              !.task_history = <<>>,
                              !.seed = <<>>,
                              !.envs = <<>>,
                              !.heap = <<>>,
                              !.annotation_id = "none",
                              !.trajectories = <<>>,
                              !.result = [call |-> "compute_group_rewards",
                                          returned |-> r.returned,
                                          key |-> <<>>,
                                          rewards |-> r.rewards]]
    /\ UNCHANGED <<envVars, pc, runVars, wait, group>>

\* data_buffer.get_history_for_step(annotation_id, step_index)
BufferGetHistory ==
    /\ pc = "buffer"
    /\ ~m2w.pending
    /\ \E annotation_id \in AnnotationIds, step_index \in StepIndexes :
           LET g == get_history_for_step(m2w.buffer, annotation_id, step_index)
           IN  m2w' = [m2w EXCEPT !.buffer = g.buffer,
                                  !.result = [call |-> "get_history_for_step",
                                              returned |-> g.history,
                                              key |-> <<annotation_id, step_index>>,
                                              rewards |-> <<>>]]
    /\ pc' = "read"
    /\ UNCHANGED <<envVars, runVars, wait, group>>

BufferNext == BufferRollout \/ BufferComputeGroupRewards \/ BufferGetHistory

BufferSpec == BufferInit /\ [][BufferNext]_vars

(***************************************************************************)
(* Properties.                                                             *)
(***************************************************************************)
\* a call of step returned a StepResult
StepReturned == last.call = "step" /\ ~last.raised

\* the capture behind the most recent user turn of a history (0: none)
LastUserCap(h) ==
    LET us == {i \in 1..Len(h) : h[i].role = "user"}
    IN  IF us = {} THEN 0
        ELSE h[CHOOSE i \in us : \A j \in us : j <= i].cap

\* the page apart from the markers that captures left on it
PageState(b) == [b EXCEPT !.markers = 0]

\* the label of a Click or Type action line
LabelOf(line) == ToInt(Parsed[line].args.id)

\* C1: the reward of a step is -1 exactly when the parsed action is
\* InvalidFormat, 1 exactly when it is Answer, and 0 for every other step,
\* whatever the typed content or the error text in the feedback.
C1_RewardRule ==
    StepReturned =>
        /\ (last.reward = -1) <=> (last.kind = "invalid")
        /\ (last.reward = 1) <=> (last.kind = "answer")
        /\ (last.kind \notin {"invalid", "answer"}) => (last.reward = 0)

\* C2: a step whose action line starts with ANSWER returns episode_done with
\* the success reward and the empty next input, calls no browser operation
\* and takes no capture.
C2_AnswerEndsEpisode ==
    [][ (/\ last'.call = "step"
         /\ steps' = steps + 1
         /\ Strip(last'.line) # <<>>
         /\ Head(Strip(last'.line)) = "ANSWER")
        => (/\ ~last'.raised
            /\ last'.episode_done
            /\ last'.reward = 1
            /\ last'.next_empty
            /\ last'.calls = 0 /\ last'.captures = 0 /\ last'.ops = {}
            /\ browser' = browser
            /\ capSeq' = capSeq
            /\ last_context' = last_context) ]_vars

C2_Witness ==
    /\ StepReturned
    /\ last.kind = "answer"
    /\ last.episode_done
    /\ Head(last.line) = "ANSWER"

\* C3: last_context is the capture behind the most recent user turn of the
\* history; it is replaced by every completed capture and by nothing else,
\* and the executor is called with the capture of the turn it answers.
C3_ContextIsLatestCapture ==
    [][ /\ LastUserCap(history') = last_context'.id
        /\ (last_context' # last_context)
              => (last'.captures = 1 /\ ~last'.raised)
        /\ (last'.call \in {"step", "initial_observation"}
              /\ last'.captures = 1 /\ ~last'.raised)
              => (last_context'.id = capSeq' /\ capSeq' = capSeq + 1)
        /\ (last'.call = "step" /\ last'.calls = 1)
              => (last'.context = last_context
                  /\ last'.context.id = LastUserCap(history)) ]_vars

C3_Witness ==
    /\ StepReturned
    /\ last.calls = 1
    /\ Len(history) >= 6
    /\ last_context.id = capSeq
    /\ last.context.id = capSeq - 1
    /\ last.context.id > 0

\* C4: Click or Type with a label not below the number of element references
\* of the current observation reports out of range, is not terminal, has
\* reward 0 and touches no element; the range is that of the observation
\* current at the call.
C4_OutOfRange ==
    [][ (/\ last'.call = "step"
         /\ steps' = steps + 1
         /\ last'.kind \in {"click", "type"}
         /\ last_context.has
         /\ LabelOf(last'.line) >= Len(last_context.web_eles))
        => (/\ last'.feedback = OutOfRange
            /\ Contains(last'.feedback, "out of range")
            /\ last'.ops \cap {"click", "type"} = {}
            /\ PageState(browser') = PageState(browser)
            /\ ~last'.raised =>
                  (~last'.episode_done /\ last'.reward = 0)) ]_vars

\* the second of two equal Click steps, after the first one navigated to a
\* page with fewer elements
C4_Witness ==
    /\ StepReturned
    /\ last.kind = "click"
    /\ last.feedback = OutOfRange
    /\ Len(history) >= 6
    /\ history[3].text = history[5].text
    /\ Contains(history[4].prefix, "Clicked.")
    /\ LabelOf(last.line) >= Len(last.before.web_eles)
    /\ Len(last.before.web_eles) > 0

\* C5: an exception of a driver call made by the executor becomes feedback
\* that begins with "Action Failed:", and the step is not terminal.
C5_DriverFailureIsFeedback ==
    (last.call = "step" /\ last.driver_raised) =>
        /\ Head(last.feedback) = "Action Failed: "
        /\ ~last.episode_done

\* the action lines that match no rule of the grammar, in any letter case
MatchesNoRule(line) ==
    LET s == Strip(line)
    IN  /\ ~(s # <<>> /\ Lower(Head(s)) = "answer")
        /\ ~ClickMatch(s).ok
        /\ ~TypeMatch(s).ok
        /\ ~ScrollMatch(s).ok
        /\ \A i \in 1..Len(s) : Lower(s[i]) \notin {"wait", "goback", "google"}

\* C6: an action text that matches no grammar rule is InvalidFormat: the
\* feedback is the format instruction, no executor call is made, the step
\* is not terminal, its reward is -1 and format_error is 1.
C6_InvalidFormat ==
    (last.call = "step" /\ MatchesNoRule(last.line)) =>
        /\ last.kind = "invalid"
        /\ last.feedback = FormatError
        /\ last.calls = 0
        /\ ~last.raised =>
              (/\ ~last.episode_done
               /\ last.reward = -1
               /\ last.metrics.format_error = 1
               /\ last.metrics.success = 0)

C6_Witness ==
    /\ StepReturned
    /\ MatchesNoRule(last.line)
    /\ last.kind = "invalid"
    /\ last.reward = -1
    /\ history[Len(history)].prefix = <<"Observation: ">> \o FormatError \o <<" ">>

\* C7: when step returns episode_done the session has been released.
C7_ReleasedOnDone ==
    (StepReturned /\ last.episode_done) => ~driver.alive

C9_CloseIdempotent ==
    [][ (last'.call = "close" /\ driver.quits >= 1)
        => (driver' = driver /\ last'.ops = {}) ]_vars

\* C10: after a capture whose element discovery failed, the observation has
\* the error marker and no element references, and a Click, Type or Scroll
\* with a label reports out of range.
C10_SoftCaptureFailure ==
    /\ (last_context.web_text = "Error capturing element text.")
          => (last_context.web_eles = <<>>)
    /\ (/\ last.call = "step"
        /\ last.before.web_text = "Error capturing element text."
        /\ \/ last.kind \in {"click", "type"}
           \/ (last.kind = "scroll"
               /\ Parsed[last.line].args.target # <<"WINDOW">>))
       => Contains(last.feedback, "out of range")

\* a capture was taken by the last call and get_capture returned
CaptureReturned ==
    /\ last.call \in {"initial_observation", "step"}
    /\ last.captures = 1
    /\ ~last.raised

\* C11: after a call of get_capture has returned, none of the markers it
\* injected is left on the page, also when element discovery failed after
\* the markers were injected; a capture of an unchanged page assigns the
\* labels of the page.
C11_OutlineCleanup ==
    CaptureReturned =>
        /\ browser.markers = 0
        /\ last_context.web_text # "Error capturing element text."
              => last_context.web_eles = ElementsOf(browser.page)

\* C12: the labels in the text of an observation are exactly
\* 0 .. len(element_refs) - 1, and label i denotes element reference i.
C12_DenseLabels ==
    (last_context.has /\ last_context.web_text = "elements") =>
        /\ {last_context.labels[k] : k \in 1..Len(last_context.labels)}
              = 0..(Len(last_context.web_eles) - 1)
        /\ \A k \in 1..Len(last_context.labels) :
              /\ last_context.labels[k] < Len(last_context.web_eles)
              /\ last_context.web_eles[last_context.labels[k] + 1][2]
                    = last_context.labels[k]

\* C13: every URL-stability wait returns after a number of polls bounded by
\* its timeout (one poll takes at least one unit of time), whatever URLs the
\* browser reports, and a timeout is a normal return.
C13_WaitBounded ==
    /\ wait.polls <= wait.timeout
    /\ wait.timed_out => wait.pc = "returned"

\* the spellings of Click with label n: any letter case, with or without
\* brackets
ClickForms(n) ==
    {<<k, " ", "[", n, "]">> : k \in {"Click", "click", "CLICK"}}
    \cup {<<k, " ", n>> : k \in {"Click", "click", "CLICK"}}

\* C14: 'Click [3]', 'click 3' and 'Click 3' parse to the same operation
\* Click with label 3 and lead to the same executor call on the current
\* observation, with the same result.
C14_ClickForms ==
    (last.call = "step" /\ last.line \in ClickForms("3")) =>
        /\ last.kind = "click"
        /\ last.args = [NoArgs EXCEPT !.id = <<"3">>]
        /\ ToInt(last.args.id) = 3
        /\ last.calls = 1
        /\ last.context = last.before
        /\ (last.before.has /\ ~last.driver_raised) =>
              last.feedback = IF 3 < Len(last.before.web_eles)
                              THEN <<"Clicked.">> ELSE OutOfRange

C14_Witness ==
    /\ StepReturned
    /\ last.line = <<"click", " ", "3">>
    /\ last.kind = "click"
    /\ last.feedback = <<"Clicked.">>
    /\ browser.page = "results"

\* C15: the keywords ANSWER, Wait, GoBack and Google are recognised in every
\* letter case.
C15_CaseInsensitive ==
    last.call = "step" =>
        /\ (Strip(last.line) # <<>> /\ Lower(Head(Strip(last.line))) = "answer")
              => (last.kind = "answer" /\ (~last.raised => last.episode_done))
        /\ (Len(Strip(last.line)) = 1
              /\ Lower(Head(Strip(last.line))) \in {"wait", "goback", "google"})
              => last.kind = Lower(Head(Strip(last.line)))

\* the rules of the grammar in the order of the specification
RuleOrder == <<"answer", "click", "type", "scroll", "wait", "goback", "google">>

\* whether a rule, taken alone, accepts an action text
RuleAccepts(rule, s) ==
    CASE rule = "answer" -> s # <<>> /\ s[1] = "ANSWER"
      [] rule = "click" -> ClickMatch(s).ok
      [] rule = "type" -> TypeMatch(s).ok
      [] rule = "scroll" -> ScrollMatch(s).ok
      [] rule = "wait" -> Contains(s, "Wait")
      [] rule = "goback" -> Contains(s, "GoBack")
      [] rule = "google" -> Contains(s, "Google")
      [] OTHER -> FALSE

AcceptingRules(s) == {i \in 1..Len(RuleOrder) : RuleAccepts(RuleOrder[i], s)}

FirstRule(s) ==
    IF AcceptingRules(s) = {} THEN "invalid"
    ELSE RuleOrder[CHOOSE i \in AcceptingRules(s) :
                       \A j \in AcceptingRules(s) : i <= j]

\* C16: the operation of a step is that of the earliest rule, in the order
\* ANSWER, Click, Type, Scroll, Wait, GoBack, Google, that accepts the action
\* text, and InvalidFormat when none does.
C16_FirstMatchWins ==
    last.call = "step" =>
        /\ last.kind = FirstRule(Strip(last.line))
        /\ last.line = <<"ANSWER", ";", " ", "Wait", " ", "for", " ", "Google">>
              => (last.kind = "answer" /\ last.calls = 0)
        /\ last.line = <<"Click", " ", "[", "2", "]", " ", "Wait">>
              => (last.kind = "click" /\ last.args.id = <<"2">>)
        /\ last.line = <<"Type", " ", "[", "1", "]", ";", " ", "Google">>
              => (last.kind = "type" /\ last.args.content = <<"Google">>)

C16_Witness ==
    /\ StepReturned
    /\ last.line = <<"Click", " ", "[", "2", "]", " ", "Wait">>
    /\ Cardinality(AcceptingRules(Strip(last.line))) = 2
    /\ last.kind = "click"
    /\ last.feedback = <<"Clicked.">>

\* the number of "Action:" markers of a text
Markers(text) == Cardinality({i \in 1..Len(text) : text[i] = "Action:"})

\* C17: a step makes one executor call for Click, Type, Scroll, Wait, GoBack
\* and Google and none for Answer and InvalidFormat, also for a text with
\* several keywords or several markers.
C17_OneActionPerTurn ==
    last.call = "step" =>
        /\ last.kind \in {"answer", "click", "type", "scroll", "wait", "goback",
                          "google", "invalid"}
        /\ last.calls = IF last.kind \in {"answer", "invalid"} THEN 0 ELSE 1
        /\ Cardinality(last.ops \ {"capture"}) <= 1

C17_Witness ==
    /\ StepReturned
    /\ Markers(last.text) = 2
    /\ Contains(last.text, "Wait")
    /\ last.kind = "click"
    /\ last.calls = 1
    /\ last.ops = {"click", "capture"}

\* the text after the last occurrence of sep, for s that contains sep
AfterLast(s, sep) ==
    SubSeq(s, 1 + CHOOSE i \in 1..Len(s) :
                       s[i] = sep /\ \A j \in (i + 1)..Len(s) : s[j] # sep,
           Len(s))

\* C18: for a text with the marker "Action:" the parsed action line is the
\* text after the last marker, up to the first newline.
C18_LastMarker ==
    (last.call = "step" /\ Contains(last.text, "Action:")) =>
        last.line = SplitHead(Strip(AfterLast(last.text, "Action:")), "\n")

\* the text of a 'Type [N]; ' line after the separator
TypeRest(line) == SubSeq(line, 8, Len(line))

\* a line 'Type [N]; rest' whose rest is in brackets or starts without one
IsTypeLine(line) ==
    /\ Len(line) > 7
    /\ \E n \in Digits : SubSeq(line, 1, 7) = TypeHead(n)
    /\ line[8] = "[" => (Len(line) > 9 /\ line[Len(line)] = "]")

\* the content of a Type line: the rest without the brackets around it
WholeContent(rest) ==
    IF rest[1] = "[" THEN SubSeq(rest, 2, Len(rest) - 1) ELSE rest

\* C19: the content of Type is the whole remainder after the separator,
\* brackets inside it included.
C19_GreedyContent ==
    (last.call = "step" /\ IsTypeLine(last.line)) =>
        /\ last.kind = "type"
        /\ last.args.content = WholeContent(TypeRest(last.line))

\* C20: 'Thought: ...<newline>Action: Type [N]; X' with N in the range of the
\* observation and no driver error types X into element N, with feedback
\* "Typed 'X'.", not terminal, reward 0.
C20_ThoughtThenType ==
    (/\ last.call = "step" /\ ~last.raised /\ ~last.driver_raised
     /\ Len(last.text) > 12
     /\ SubSeq(last.text, 1, 5) = ThoughtPrefix
     /\ \E n \in Digits :
           /\ SubSeq(last.text, 6, 12) = TypeHead(n)
           /\ DigitVal(n) < Len(last.before.web_eles)
     /\ \A i \in 13..Len(last.text) : last.text[i] \notin {"[", "]", "\n"})
    => /\ last.kind = "type"
       /\ last.args.content = SubSeq(last.text, 13, Len(last.text))
       /\ last.feedback
             = <<"Typed '">> \o SubSeq(last.text, 13, Len(last.text)) \o <<"'.">>
       /\ ~last.episode_done
       /\ last.reward = 0

\* C21: the turns of an episode are strictly sequential: a step performs a
\* browser operation only when an observation had been produced before it
\* (also when step is the first call on the environment), and the capture
\* of a step shows the page as the action of that step left it.
C21_StrictlySequential ==
    last.call = "step" =>
        /\ (last.ops \ {"capture"} # {}) => last.before.has
        /\ (last.captures = 1 /\ ~last.raised)
              => (last_context.id = capSeq /\ last_context.page = browser.page)

\* C22: the history is append-only and loses no turn: a returned
\* initial_observation leaves [system, user]; every call of step keeps the
\* earlier entries and appends the assistant turn of the model's text; a
\* terminal step appends nothing else, and every other step, whatever
\* failed on its way, appends one user turn after it that carries the
\* feedback of the action.
C22_AppendOnlyHistory ==
    [][ /\ (last'.call = "initial_observation" /\ ~last'.raised)
            => /\ Len(history') = 2
               /\ history'[1].role = "system"
               /\ history'[2].role = "user"
        /\ last'.call = "step"
            => /\ Len(history') > Len(history)
               /\ SubSeq(history', 1, Len(history)) = history
               /\ history'[Len(history) + 1] = AssistantMsg(last'.text)
               /\ IF last'.kind = "answer"
                  THEN Len(history') = Len(history) + 1
                  ELSE /\ Len(history') = Len(history) + 2
                       /\ history'[Len(history) + 2].role = "user"
                       /\ history'[Len(history) + 2].prefix
                             = <<"Observation: ">> \o last'.feedback \o <<" ">>
      ]_vars

\* the number of assistant turns of a history: one for every call of step
AssistantTurns(h) == Cardinality({i \in 1..Len(h) : h[i].role = "assistant"})

\* C23: initial_observation sets the turn counter to 1 and every call of
\* step adds exactly 1 to it: after k calls of step the counter is 1 + k,
\* whatever the actions were and whether the action or the capture failed.
C23_TurnCounter ==
    /\ last.call = "initial_observation" => steps = 1
    /\ pc = "observed" => steps = 1 + AssistantTurns(history)

\* C23 witness: the second step after initial_observation has been made and
\* its action or its capture failed; the counter is 3.
C23_Witness ==
    /\ last.call = "step"
    /\ last.driver_raised \/ last.raised
    /\ AssistantTurns(history) = 2
    /\ steps = 3

\* C24: in every StepResult success is 1 exactly when the reward is
\* positive and format_error is 1 exactly when it is negative; they are
\* never both 1, and a terminal step has format_error 0.
C24_Metrics ==
    StepReturned =>
        /\ last.metrics.success = 1 <=> last.reward > 0
        /\ last.metrics.format_error = 1 <=> last.reward < 0
        /\ last.metrics.success \in {0, 1}
        /\ last.metrics.format_error \in {0, 1}
        /\ ~(last.metrics.success = 1 /\ last.metrics.format_error = 1)
        /\ last.episode_done => last.metrics.format_error = 0

\* C24 witness: a terminal step whose answer quotes the text of the format
\* error has returned with success 1 and format_error 0.
C24_Witness ==
    /\ StepReturned
    /\ last.episode_done
    /\ Contains(last.feedback, "Invalid Action Format")
    /\ last.reward = 1
    /\ last.metrics = [success |-> 1, format_error |-> 0]

\* C25: environments that run concurrently share no session: any two
\* environments made by the group builders, also two made from the same
\* task, hold different browsers and different last_context objects, and
\* in no interleaving of their steps are two actions acting on one browser.
C25_OwnSession ==
    \A i, j \in DOMAIN group.envs :
        i # j =>
            /\ group.envs[i].browser # group.envs[j].browser
            /\ group.envs[i].last_context # group.envs[j].last_context
            /\ ~(/\ group.envs[i].pc = "acting"
                 /\ group.envs[j].pc = "acting"
                 /\ group.envs[i].browser = group.envs[j].browser)

\* C25 witness: two environments built from the same task by one builder
\* are both in a step.
C25_Witness ==
    \E i, j \in DOMAIN group.envs :
        /\ i # j
        /\ group.envs[i].task = group.envs[j].task
        /\ group.envs[i].pc = "acting"
        /\ group.envs[j].pc = "acting"

\* a Scroll step whose target is a numeric label
NumericScroll ==
    /\ StepReturned
    /\ last.kind = "scroll"
    /\ last.args.target # <<>>
    /\ \A i \in 1..Len(last.args.target) : IsDigit(last.args.target[i])

\* C26: Scroll with a numeric target is range-checked like Click: for a
\* label that is not in the element range of the current observation no
\* scroll is performed and the feedback reports the element id as out of
\* range.
C26_ScrollOutOfRange ==
    (/\ NumericScroll
     /\ last.before.has
     /\ last.before.web_text = "elements"
     /\ ~InRange(ToInt(last.args.target), last.before.web_eles))
    => /\ last.ops \cap {"scroll_window", "scroll_element"} = {}
       /\ last.feedback = OutOfRange

\* a Scroll step whose target is WINDOW in some letter case and whose driver
\* call, if one was made, did not raise
WindowScroll ==
    /\ StepReturned
    /\ last.kind = "scroll"
    /\ Len(last.args.target) = 1
    /\ Lower(last.args.target[1]) = "window"
    /\ ~last.driver_raised

\* C27: Scroll is case-insensitive in its arguments: in every letter case
\* of WINDOW and of the direction the step scrolls the viewport (here from
\* the top of the page) by one scroll amount down for down and not at all
\* for up, and the feedback names that direction.
C27_ScrollArgsAnyCase ==
    WindowScroll =>
        /\ "scroll_window" \in last.ops
        /\ Len(last.feedback) = 3
        /\ last.feedback[1] = "Scrolled "
        /\ Lower(last.feedback[2]) = Lower(last.args.direction)
        /\ browser.scroll = IF Lower(last.args.direction) = "down" THEN 1 ELSE 0

\* C28: the Google action reports "Navigated to Google." only when the
\* browser is on Google after it, and a driver call of the navigation that
\* raises becomes failure feedback of the turn.
C28_GoogleFailureReported ==
    (StepReturned /\ last.kind = "google") =>
        /\ last.feedback = <<"Navigated to Google.">> => browser.page = "google"
        /\ last.driver_raised => Head(last.feedback) = "Action Failed: "

\* C29: the URL counts as stable after two consecutive identical reads: the
\* wait has returned as soon as the last two reads of the URL are equal,
\* and it returns on unequal reads only when the timeout has expired.
C29_StableAfterTwoReads ==
    /\ (wait.polls >= 1 /\ wait.prev_url = wait.last_url)
          => wait.pc = "returned"
    /\ (wait.pc = "returned" /\ ~wait.timed_out)
          => wait.prev_url = wait.last_url

\* the assistant turns of a history whose step returned episode_done = True
AnswerTurns(h) ==
    {i \in 1..Len(h) : /\ h[i].role = "assistant"
                       /\ Parsed[LineOf[h[i].text]].kind = "answer"}

\* C30: DONE is absorbing: after a step that returned episode_done = True
\* nothing is appended to the history, and a later call of step performs
\* no browser operation, takes no capture and returns no reward.
C30_DoneAbsorbing ==
    /\ \A i \in AnswerTurns(history) : i = Len(history)
    /\ (last.call = "step" /\ AnswerTurns(history) \ {Len(history)} # {})
          => /\ last.ops = {}
             /\ last.captures = 0
             /\ last.reward = 0

\* C32: a step whose action line matches no rule, or whose Click or Type
\* names a label outside the element range of the current observation,
\* performs no driver operation apart from the capture that follows, and
\* leaves the page, its history, its scroll position and the contents of
\* its elements as they were.
C32_NoPageChange ==
    [][ (/\ last'.call = "step"
         /\ steps' = steps + 1
         /\ \/ MatchesNoRule(last'.line)
            \/ /\ last'.kind \in {"click", "type"}
               /\ last_context.has
               /\ LabelOf(last'.line) >= Len(last_context.web_eles))
        => (/\ last'.ops \subseteq {"capture"}
            /\ browser'.page = browser.page
            /\ browser'.nav = browser.nav
            /\ browser'.scroll = browser.scroll
            /\ browser'.field = browser.field) ]_vars

\* C32 witness: a Type step with a label beyond the elements of a page
\* whose elements were discovered has returned, with the capture as its
\* only driver operation.
C32_Witness ==
    /\ StepReturned
    /\ last.kind = "type"
    /\ last.before.web_text = "elements"
    /\ Len(last.before.web_eles) > 0
    /\ LabelOf(last.line) >= Len(last.before.web_eles)
    /\ last.ops = {"capture"}

\* C31: the user turn that initial_observation builds carries the task goal
\* and no "Observation:" prefix, and the user turn that a step builds is
\* prefixed with the feedback of the action of that step; checked for the
\* variant of env_step.py and every seed history.
C31_TurnFraming ==
    /\ (last.call = "initial_observation" /\ ~last.raised)
          => /\ history[Len(history)].role = "user"
             /\ history[Len(history)].first
             /\ history[Len(history)].prefix = <<>>
    /\ (StepReturned /\ ~last.episode_done)
          => /\ history[Len(history)].role = "user"
             /\ history[Len(history)].prefix
                   = <<"Observation: ">> \o last.feedback \o <<" ">>

\* C34: in the variant with a seed history, a returned initial_observation
\* leaves [system, user] when the task has no seed history, and otherwise
\* the seed history, every turn in its place, followed by one user turn;
\* the prompt it returns is built from that whole history.
C34_SeededFirstObservation ==
    (last.call = "initial_observation" /\ ~last.raised) =>
        /\ IF m2w.task_history = <<>>
           THEN /\ Len(history) = 2
                /\ history[1].role = "system"
                /\ history[2].role = "user"
           ELSE /\ Len(history) = Len(m2w.task_history) + 1
                /\ SubSeq(history, 1, Len(m2w.task_history)) = m2w.task_history
                /\ history[Len(history)].role = "user"
        /\ last.prompt = history

\* C34 witness: initial_observation has returned on an environment whose
\* task has a seed history.
C34_Witness ==
    /\ last.call = "initial_observation"
    /\ ~last.raised
    /\ m2w.task_history # <<>>
    /\ Len(history) = Len(m2w.task_history) + 1
    /\ Len(last.prompt) = Len(history)

\* C35: every pair in the data buffer is (user input turn, assistant output
\* turn), whether the last step of the trajectory was terminal or not.
C35_StoredPairRoles ==
    \A key \in DOMAIN m2w.buffer :
        \A i \in 1..Len(m2w.buffer[key]) :
            m2w.buffer[key][i].role = IF i % 2 = 1 THEN "user" ELSE "assistant"

\* C33: an episode of the variant with a seed history never changes its
\* task: whatever initial_observation and step calls the sibling
\* environments of one task make, task.history is as it was, no two
\* environments share a history list or use the list of the task, and the
\* history of an environment holds the seed and its own turns only.
C33_TaskReadOnly ==
    /\ m2w.task_history = m2w.seed
    /\ \A i \in DOMAIN m2w.envs :
          /\ m2w.envs[i].history # 0
          /\ \A j \in DOMAIN m2w.envs :
                i # j => m2w.envs[i].history # m2w.envs[j].history
          /\ \A k \in 1..Len(ListOf(m2w, m2w.envs[i].history)) :
                ListOf(m2w, m2w.envs[i].history)[k].env \in {0, i}
          /\ m2w.envs[i].steps >= 1 =>
                SubSeq(ListOf(m2w, m2w.envs[i].history), 1, Len(m2w.seed))
                   = m2w.seed

\* C33 witness: two environments built from a task with a seed history have
\* each made a step.
C33_Witness ==
    /\ m2w.seed # <<>>
    /\ \E i, j \in DOMAIN m2w.envs :
          /\ i # j
          /\ m2w.envs[i].steps >= 2
          /\ m2w.envs[j].steps >= 2
          /\ m2w.task_history = m2w.seed

\* the trajectory that compute_group_rewards takes the pair from: the one with
\* the highest total reward, the lowest index when several tie
HighestFirst(trajectory_group) ==
    CHOOSE i \in DOMAIN trajectory_group :
        /\ \A j \in DOMAIN trajectory_group :
               total_reward(trajectory_group[j]) <= total_reward(trajectory_group[i])
        /\ \A j \in 1..(i - 1) :
               total_reward(trajectory_group[j]) < total_reward(trajectory_group[i])

\* key of the data buffer -> its entry, the empty list when absent
EntryOf(buffer, key) == IF key \in DOMAIN buffer THEN buffer[key] ELSE <<>>

\* buffer2 is buffer1 with the last two turns of environment i of the group m
\* appended to one entry, and nothing else changed
OnePairFrom(buffer1, buffer2, m, i) ==
    LET h == ListOf(m, m.envs[i].history)
        key == <<m.annotation_id, m.envs[i].steps>>
    IN  /\ Len(h) >= 2
        /\ m.trajectories[i] # <<>>
        /\ h[Len(h) - 1].env = i
        /\ h[Len(h)].env = i
        /\ DOMAIN buffer2 = DOMAIN buffer1 \cup {key}
        /\ buffer2[key] = EntryOf(buffer1, key) \o <<h[Len(h) - 1], h[Len(h)]>>
        /\ \A k \in DOMAIN buffer1 : k # key => buffer2[k] = buffer1[k]

\* C36: a call of compute_group_rewards returns one (0.0, {}) entry per
\* trajectory of the group and either leaves the data buffer as it was or adds
\* exactly one pair, the last two turns of the environment of the trajectory with
\* the highest total reward (the lowest index on a tie); no turn of another
\* environment of the group enters the buffer.
C36_OnePairFromBest ==
    [][ (m2w.pending /\ ~m2w'.pending) =>
          /\ m2w'.result.returned =
                 [i \in 1..Len(m2w.trajectories) |-> [reward |-> 0, metrics |-> <<>>]]
          /\ \/ m2w'.buffer = m2w.buffer
             \/ /\ m2w.trajectories # <<>>
                /\ OnePairFrom(m2w.buffer, m2w'.buffer, m2w,
                               HighestFirst(m2w.trajectories)) ]_vars

\* C36 witness: a call on a group of two trajectories with equal total rewards,
\* both with steps, has returned two entries and added the pair of the first
\* environment.
C36_Witness ==
    /\ m2w.result.call = "compute_group_rewards"
    /\ Len(m2w.result.returned) = 2
    /\ m2w.result.rewards[1] = m2w.result.rewards[2]
    /\ m2w.calls = 1
    /\ Len(m2w.log) = 1
    /\ m2w.log[1].model_input.env = 1
    /\ m2w.log[1].model_output.env = 1

\* the key under which add_step_result stores the pair of a logged call
KeyOf(c) == <<c.annotation_id, c.step_index + 1>>

\* the turns that the logged calls of add_step_result have put under a key, in
\* the order of the calls: the input of each call followed by its output
RECURSIVE Inserted(_, _)
Inserted(log, key) ==
    IF log = <<>> THEN <<>>
    ELSE (IF KeyOf(Head(log)) = key
          THEN <<Head(log).model_input, Head(log).model_output>>
          ELSE <<>>) \o Inserted(Tail(log), key)

====
